---- MODULE Spec2Model ----
(***************************************************************************)
(* The self-scaling worker pool of custom-thread-pool.py: BlockingQueue,   *)
(* ThreadPool, Sequence and WorkerThread, with the callers of submit.      *)
(*                                                                         *)
(* Every block the source runs under `with self._lock` is one action: the  *)
(* queue is touched only under the queue lock and the roster only under    *)
(* the pool lock, so the blocks of one lock never overlap.  A thread       *)
(* between two actions holds no lock.                                      *)
(*                                                                         *)
(* The worker threads are kept as a bag of thread states.  A thread's      *)
(* behaviour depends on its name only through the lookup in                *)
(* _color_mapping, so a thread state records whether that lookup finds a   *)
(* key (fore) and not the name; the names are kept in the roster.          *)
(***************************************************************************)
EXTENDS Bags, FiniteSets, Integers, Sequences, TLC

VARIABLES
    min_workers,    \* ThreadPool._min_workers
    max_workers,    \* ThreadPool._max_workers
    workers,        \* ThreadPool._workers: the roster, n stands for "Worker-n"
    queue,          \* BlockingQueue._queue
    current_value,  \* Sequence._current_value
    lock,           \* ThreadPool._lock: the caller that holds it, or 0
    threads,        \* the started WorkerThreads: a bag of [fore, pc, action]
    todo,           \* per caller thread: submit calls it has still to make
    pc,             \* per caller thread: where it is in submit
    queue_size,     \* per caller thread: submit's local queue_size
    labelled,       \* whether the submitted actions are told apart
    enqueued,       \* history: number of enqueue calls completed
    returned,       \* history: bag of the actions returned by dequeue
    executed,       \* history: bag of the actions called in run (line 105)
    search,         \* chess_king_paths.py: a call of search_paths and its result
    prime_search,   \* executor-prime-numbers.py: a call of get_prime_numbers
    perfect_search, \* executor-perfect-numbers.py: a call of get_perfect_numbers
    main            \* executor-prime-numbers.py: main's batching of the range

vars == <<min_workers, max_workers, workers, queue, current_value, lock, threads,
          todo, pc, queue_size, labelled, enqueued, returned, executed, search,
          prime_search, perfect_search, main>>

-----------------------------------------------------------------------------
(* Program constants *)

\* test_corner_to_corner: search_paths("a1", "h8", 7)
CornerMoves == 7

\* submit, line 61: queue_size > 5
HighWaterMark == 5

\* WorkerThread._color_mapping, lines 82-93: keys "Worker-1" .. "Worker-10"
NumColors == 10

\* main, line 111: ThreadPool(3, 10)
MainMinWorkers == 3
MainMaxWorkers == 10

\* main, line 112: range(0, 20)
MainActions == 20

(* Bounds of the model *)

\* The general specification constructs ThreadPool(mn, mx) for all
\* mn, mx in 0 .. MaxWorkers.
MaxWorkers == 2

\* The general specification lets its first caller make this many submit
\* calls, and its second caller two.
MaxSubmits == 5

\* search_paths is called with max_moves up to MaxMoves
MaxMoves == 3

\* get_prime_numbers and get_perfect_numbers are called with ranges of
\* integers up to MaxValue
MaxValue == 30

-----------------------------------------------------------------------------
(* WorkerThread *)

\* self._color_mapping[self.name] (line 103) finds a key, or raises KeyError
HasColor(name) == name \in 1..NumColors

\* wrong: the thread is constructed and start() is not called
ThreadNotStarted(name) == [fore |-> HasColor(name), pc |-> "initial", action |-> 0]

\* WorkerThread.__init__: the thread is started and is about to call dequeue
ThreadStart(name) == [fore |-> HasColor(name), pc |-> "dequeue", action |-> 0]

\* one thread of the bag changes its state
Replace(ts, old, new) == (ts (-) SetToBag({old})) (+) SetToBag({new})

\* [WorkerThread(self._queue) for _ in range(0, n)], names first+1 .. first+n
RECURSIVE StartAll(_, _)
StartAll(first, n) ==
    IF n <= 0 THEN EmptyBag
    ELSE StartAll(first, n - 1) (+) SetToBag({ThreadStart(first + n)})

-----------------------------------------------------------------------------
(* BlockingQueue *)

\* a thread in Condition.wait (line 45) is notified: it leaves the wait once
\* it has the queue lock again, and then evaluates the while of line 44
Woken(t) == IF t.pc = "waiting" THEN [t EXCEPT !.pc = "notified"] ELSE t

CopiesOrZero(ts, t) == IF t \in DOMAIN ts THEN ts[t] ELSE 0

\* wrong: notify() in place of notify_all(), one waiting thread is woken
NotifyOne(ts) ==
    IF \E t \in DOMAIN ts : t.pc = "waiting"
    THEN LET t == CHOOSE x \in DOMAIN ts : x.pc = "waiting"
         IN  Replace(ts, t, Woken(t))
    ELSE ts

\* wrong: the notification is forgotten
NotifyNone(ts) == ts

\* self._condition.notify_all() (line 39): every waiting thread is woken
NotifyAll(ts) ==
    [s \in {Woken(t) : t \in DOMAIN ts} |->
        IF s.pc = "notified"
        THEN CopiesOrZero(ts, s) + CopiesOrZero(ts, [s EXCEPT !.pc = "waiting"])
        ELSE ts[s]]

\* wrong: self._queue = deque([action]), the queued actions are dropped
Replaced(q, action) == <<action>>

\* wrong: a queue with a capacity, which rejects an action when it is full
AppendedBounded(q, action) ==
    IF Len(q) >= HighWaterMark THEN q ELSE Append(q, action)

\* self._queue.append(action) (line 36)
Appended(q, action) == Append(q, action)

\* wrong: self._queue[0], the head is returned and stays in the queue
Peek(q) == <<Head(q), q>>

\* wrong: self._queue.pop(), the tail is taken
Pop(q) == <<q[Len(q)], SubSeq(q, 1, Len(q) - 1)>>

\* self._queue.popleft() (line 46): <<the action it returns, what it leaves>>
Popleft(q) == <<Head(q), Tail(q)>>

\* enqueue (lines 34-40), called by caller c at line 59
Enqueue(c) ==
    /\ pc[c] = "enqueue"
    /\ todo[c] > 0
    /\ LET action == IF labelled THEN enqueued + 1 ELSE 1
           after == Appended(queue, action)
           current_size == Len(after)
       IN  /\ queue' = after
           /\ threads' = IF current_size = 1 THEN NotifyAll(threads) ELSE threads
           /\ queue_size' = [queue_size EXCEPT ![c] = current_size]
    /\ pc' = [pc EXCEPT ![c] = "decide"]
    /\ enqueued' = enqueued + 1
    /\ UNCHANGED <<main, search, prime_search, perfect_search, min_workers,
                   max_workers, workers, current_value, lock, todo,
                   labelled, returned, executed>>

\* dequeue (lines 42-46), called by a worker at line 102: a thread that enters
\* it, or that was notified, takes the queue lock and evaluates the while; on
\* an empty queue it waits, which releases the lock
Dequeue(t) ==
    /\ t.pc \in {"dequeue", "notified"}
    /\ IF Len(queue) = 0
       THEN /\ threads' = Replace(threads, t, [t EXCEPT !.pc = "waiting"])
            /\ UNCHANGED <<queue, returned>>
       ELSE /\ threads' = Replace(threads, t,
                    [t EXCEPT !.pc = "fetched", !.action = Popleft(queue)[1]])
            /\ queue' = Popleft(queue)[2]
            /\ returned' = returned (+) SetToBag({Popleft(queue)[1]})
    /\ UNCHANGED <<main, search, prime_search, perfect_search, min_workers,
                   max_workers, workers, current_value, lock, todo,
                   pc, queue_size, labelled, enqueued, executed>>

-----------------------------------------------------------------------------
(* Sequence *)

\* wrong: the value is returned and not incremented
NextValueStuck(value) == value

\* next_value (lines 72-75)
NextValue(value) == value + 1

-----------------------------------------------------------------------------
(* ThreadPool *)

\* wrong: queue_size >= 5
ShouldGrowAtMark(size, roster, max) ==
    size >= HighWaterMark /\ Len(roster) < max

\* wrong: the roster size is not compared with max_workers
ShouldGrowUncapped(size, roster, max) == size > HighWaterMark

\* wrong: only the workers whose thread is alive are counted
ShouldGrowAlive(size, roster, max) ==
    /\ size > HighWaterMark
    /\ Len(roster) - BagCardinality([t \in {x \in DOMAIN threads : x.pc = "dead"}
                                        |-> threads[t]]) < max

\* wrong: the size of the queue is read again while the pool lock is held
ShouldGrowCurrent(size, roster, max) ==
    Len(queue) > HighWaterMark /\ Len(roster) < max

\* line 61: queue_size > 5 and len(self._workers) < self._max_workers
ShouldGrow(size, roster, max) == size > HighWaterMark /\ Len(roster) < max

\* wrong: self._workers = [...], the new worker replaces the roster
Regrown(roster, name) == <<name>>

\* line 62: self._workers.append(...)
Grown(roster, name) == Append(roster, name)

\* wrong: submit without `with self._lock`
AcquireAnyway(holder) == TRUE

\* Lock.acquire: the lock is free
CanAcquire(holder) == holder = 0

\* with self._lock (line 60): the caller takes the pool lock
Acquire(c) ==
    /\ pc[c] = "decide"
    /\ CanAcquire(lock)
    /\ lock' = c
    /\ pc' = [pc EXCEPT ![c] = "check"]
    /\ UNCHANGED <<main, search, prime_search, perfect_search, min_workers,
                   max_workers, workers, queue, current_value,
                   threads, todo, queue_size, labelled, enqueued, returned,
                   executed>>

\* wrong: self._lock.acquire() with no release, submit returns with the lock
ReturnedHoldingLock(c) ==
    /\ lock' = lock
    /\ pc' = [pc EXCEPT ![c] = "enqueue"]
    /\ todo' = [todo EXCEPT ![c] = todo[c] - 1]
    /\ queue_size' = [queue_size EXCEPT ![c] = 0]

\* the lock is released and submit returns (the end of the with block)
Returned(c) ==
    /\ lock' = 0
    /\ pc' = [pc EXCEPT ![c] = "enqueue"]
    /\ todo' = [todo EXCEPT ![c] = todo[c] - 1]
    /\ queue_size' = [queue_size EXCEPT ![c] = 0]

\* the if of line 61; when it is false the with block ends
Check(c) ==
    /\ pc[c] = "check"
    /\ IF ShouldGrow(queue_size[c], workers, max_workers)
       THEN /\ pc' = [pc EXCEPT ![c] = "append"]
            /\ UNCHANGED <<lock, todo, queue_size>>
       ELSE Returned(c)
    /\ UNCHANGED <<main, search, prime_search, perfect_search, min_workers,
                   max_workers, workers, queue, current_value,
                   threads, labelled, enqueued, returned, executed>>

\* lines 62-63: a worker is constructed (named by the Sequence, started) and
\* appended to the roster; the with block ends
AppendWorker(c) ==
    /\ pc[c] = "append"
    /\ LET name == NextValue(current_value)
       IN  /\ current_value' = name
           /\ workers' = Grown(workers, name)
           /\ threads' = threads (+) SetToBag({ThreadStart(name)})
    /\ Returned(c)
    /\ UNCHANGED <<main, search, prime_search, perfect_search, min_workers,
                   max_workers, queue, labelled, enqueued,
                   returned, executed>>

-----------------------------------------------------------------------------
(* WorkerThread.run *)

\* lines 103-105: the colour is looked up, then the action is called; a
\* thread whose name is no key of _color_mapping ends with KeyError
Execute(t) ==
    /\ t.pc = "fetched"
    /\ IF t.fore
       THEN /\ threads' = Replace(threads, t, [t EXCEPT !.pc = "running"])
            /\ executed' = executed (+) SetToBag({t.action})
       ELSE /\ threads' = Replace(threads, t, [t EXCEPT !.pc = "dead"])
            /\ UNCHANGED executed
    /\ UNCHANGED <<main, search, prime_search, perfect_search, min_workers,
                   max_workers, workers, queue, current_value,
                   lock, todo, pc, queue_size, labelled, enqueued, returned>>

\* lines 105-106 and back to line 101: the action returns
Return(t) ==
    /\ t.pc = "running"
    /\ threads' = Replace(threads, t, [t EXCEPT !.pc = "dequeue", !.action = 0])
    /\ UNCHANGED <<main, search, prime_search, perfect_search, min_workers,
                   max_workers, workers, queue, current_value,
                   lock, todo, pc, queue_size, labelled, enqueued, returned,
                   executed>>

\* line 105: the action raises; run does not catch the exception, so the
\* thread ends
Raise(t) ==
    /\ t.pc = "running"
    /\ threads' = Replace(threads, t, [t EXCEPT !.pc = "dead"])
    /\ UNCHANGED <<main, search, prime_search, perfect_search, min_workers,
                   max_workers, workers, queue, current_value, lock, todo, pc,
                   queue_size, labelled, enqueued, returned, executed>>

-----------------------------------------------------------------------------
(* Specifications *)

\* the process of the pool does not run chess_king_paths.py
NotCalled ==
    [pc |-> "idle", start_square |-> <<>>, destination_square |-> <<>>,
     max_moves |-> 0, found_paths |-> <<>>]

\* the process runs neither executor-prime-numbers.py nor
\* executor-perfect-numbers.py
NoPrimeSearch ==
    [pc |-> "idle", search_range |-> [min |-> 0, max |-> 0], prime_numbers |-> <<>>]

NoPerfectSearch ==
    [pc |-> "idle", search_range |-> [min |-> 0, max |-> 0], perfect_numbers |-> <<>>]

\* main of executor-prime-numbers.py is not run
NoMain ==
    [pc |-> "idle", command_line_arguments |-> [start |-> 0, end |-> 0, bulk_size |-> 0],
     start |-> 0, future_list |-> <<>>, results |-> 0, prime_numbers |-> <<>>]

\* ThreadPool(mn, mx) (lines 51-56) in a fresh process, and callers that
\* will make subs[c] submit calls
InitPool(mn, mx, subs, lab) ==
    /\ min_workers = mn
    /\ max_workers = mx
    /\ workers = [i \in 1..mn |-> i]
    /\ current_value = IF mn > 0 THEN mn ELSE 0
    /\ threads = StartAll(0, mn)
    /\ queue = <<>>
    /\ lock = 0
    /\ todo = subs
    /\ pc = [c \in DOMAIN subs |-> "enqueue"]
    /\ queue_size = [c \in DOMAIN subs |-> 0]
    /\ labelled = lab
    /\ enqueued = 0
    /\ returned = EmptyBag
    /\ executed = EmptyBag

Next ==
    \/ \E c \in DOMAIN todo : Enqueue(c)
    \/ \E c \in DOMAIN todo : Acquire(c)
    \/ \E c \in DOMAIN todo : Check(c)
    \/ \E c \in DOMAIN todo : AppendWorker(c)
    \/ \E t \in BagToSet(threads) : Dequeue(t)
    \/ \E t \in BagToSet(threads) : Execute(t)
    \/ \E t \in BagToSet(threads) : Return(t)

\* any construction, valid or not, and two callers
Init ==
    /\ \E mn \in 0..MaxWorkers, mx \in 0..MaxWorkers :
        InitPool(mn, mx, [c \in {1, 2} |-> IF c = 1 THEN MaxSubmits ELSE 2], TRUE)
    /\ search = NotCalled
    /\ prime_search = NoPrimeSearch
    /\ perfect_search = NoPerfectSearch
    /\ main = NoMain

Spec == Init /\ [][Next]_vars

\* the caller threads and the worker threads
Callers ==
    \E c \in DOMAIN todo : Enqueue(c) \/ Acquire(c) \/ Check(c) \/ AppendWorker(c)

Workers ==
    \E t \in BagToSet(threads) : Dequeue(t) \/ Execute(t) \/ Return(t)

\* threads are scheduled fairly, and every action returns
Fairness == WF_vars(Callers) /\ WF_vars(Workers)

\* main (lines 109-113): ThreadPool(3, 10) and one caller that submits 20
\* interchangeable actions
InitMain ==
    /\ InitPool(MainMinWorkers, MainMaxWorkers, [c \in {1} |-> MainActions], FALSE)
    /\ search = NotCalled
    /\ prime_search = NoPrimeSearch
    /\ perfect_search = NoPerfectSearch
    /\ main = NoMain

SpecMain == InitMain /\ [][Next]_vars

\* valid constructions in a fresh process, one caller, fair scheduling:
\* ThreadPool(1, 1) with 5 submit calls, ThreadPool(1, 2) with 6, and
\* ThreadPool(11, 11), the smallest pool with a worker beyond the ten keys of
\* _color_mapping, with 2
InitFair ==
    /\ \/ InitPool(1, 1, [c \in {1} |-> 5], TRUE)
       \/ InitPool(1, 2, [c \in {1} |-> 6], TRUE)
       \/ InitPool(NumColors + 1, NumColors + 1, [c \in {1} |-> 2], TRUE)
    /\ search = NotCalled
    /\ prime_search = NoPrimeSearch
    /\ perfect_search = NoPerfectSearch
    /\ main = NoMain

FairSpec == InitFair /\ [][Next]_vars /\ Fairness

\* the callers are scheduled fairly; nothing is assumed of the workers, so an
\* action may never return
CallerFairSpec == Init /\ [][Next]_vars /\ WF_vars(Callers)

\* WorkerThread._sequence is a class attribute: another ThreadPool of the same
\* process constructs a worker, which draws its name from the same Sequence
\* (lines 95-96); that pool has at most MaxWorkers workers
OtherPoolWorker ==
    /\ current_value - Len(workers) < MaxWorkers
    /\ current_value' = NextValue(current_value)
    /\ UNCHANGED <<main, search, prime_search, perfect_search, min_workers,
                   max_workers, workers, queue, lock, threads,
                   todo, pc, queue_size, labelled, enqueued, returned, executed>>

NextShared == Next \/ OtherPoolWorker

\* a pool that can grow up to MaxWorkers + 1 workers, two callers, and a
\* second pool
InitShared ==
    /\ \E mn \in 0..1 :
        InitPool(mn, MaxWorkers + 1,
                 [c \in {1, 2} |-> IF c = 1 THEN MaxSubmits ELSE 2], TRUE)
    /\ search = NotCalled
    /\ prime_search = NoPrimeSearch
    /\ perfect_search = NoPerfectSearch
    /\ main = NoMain

SpecShared == InitShared /\ [][NextShared]_vars

\* the callers are scheduled fairly, and so are the workers that are not
\* inside an action; an action may never return
Idle == \E t \in BagToSet(threads) : Dequeue(t) \/ Execute(t)

NoReturnFairSpec == Init /\ [][Next]_vars /\ WF_vars(Callers) /\ WF_vars(Idle)

\* the workers are scheduled fairly; a caller may never call submit
WorkerFairSpec == Init /\ [][Next]_vars /\ WF_vars(Workers)

\* an action may raise instead of returning
NextRaise == Next \/ \E t \in BagToSet(threads) : Raise(t)

SpecRaise == Init /\ [][NextRaise]_vars

-----------------------------------------------------------------------------
(* chess_king_paths.py *)

(***************************************************************************)
(* A square is the string the source handles, kept as the sequence of its  *)
(* characters: "e4" is <<"e", "4">>.  A path is a sequence of squares.     *)
(***************************************************************************)

\* the characters of the code points 96 to 105, in order; "grave" stands for
\* the grave accent, the character before "a"
Chars == <<"grave", "a", "b", "c", "d", "e", "f", "g", "h", "i">>

\* all the two-character strings over two alphabets
Seq2(first, second) ==
    {<<first[i], second[j]>> : i \in DOMAIN first, j \in DOMAIN second}

\* the decimal digits
Digits == <<"0", "1", "2", "3", "4", "5", "6", "7", "8", "9">>

\* ord and chr of line 77
ord(c) == 95 + CHOOSE i \in DOMAIN Chars : Chars[i] = c

chr(n) == Chars[n - 95]

\* int(square[1]), line 75: the value of one digit
int(c) == (CHOOSE i \in DOMAIN Digits : Digits[i] = c) - 1

\* the characters an f-string writes for an integer (line 79)
RECURSIVE str(_)
str(n) ==
    IF n < 0 THEN <<"-">> \o str(0 - n)
    ELSE IF n < 10 THEN <<Digits[n + 1]>>
    ELSE str(n \div 10) \o <<Digits[(n % 10) + 1]>>

\* wrong: the pattern ^[a-h][1-9]$
is_valid_square_to_9(square) ==
    /\ Len(square) = 2
    /\ square[1] \in {"a", "b", "c", "d", "e", "f", "g", "h"}
    /\ square[2] \in {"1", "2", "3", "4", "5", "6", "7", "8", "9"}

\* match("^[a-h][1-8]$", square) is not None (lines 55-56)
is_valid_square(square) ==
    /\ Len(square) = 2
    /\ square[1] \in {"a", "b", "c", "d", "e", "f", "g", "h"}
    /\ square[2] \in {"1", "2", "3", "4", "5", "6", "7", "8"}

\* wrong: zip(files, ranks), the three squares of one diagonal
zipped(files, ranks) == [i \in 1..Len(files) |-> <<files[i], ranks[i]>>]

\* wrong: every pair of product(files, ranks) twice
product_twice(files, ranks) ==
    [i \in 1..(2 * Len(files) * Len(ranks)) |->
        <<files[(((i - 1) \div 2) \div Len(ranks)) + 1],
          ranks[(((i - 1) \div 2) % Len(ranks)) + 1]>>]

\* itertools.product(files, ranks): the pairs, the last component running
\* fastest
product(files, ranks) ==
    [i \in 1..(Len(files) * Len(ranks)) |->
        <<files[((i - 1) \div Len(ranks)) + 1], ranks[((i - 1) % Len(ranks)) + 1]>>]

\* f"{t[0]}{t[1]}" of line 79
Formatted(t) == <<t[1]>> \o str(t[2])

\* lines 73-81
get_adjecant_squares(square) ==
    LET file == square[1]
        rank == int(square[2])
        ranks == <<rank - 1, rank, rank + 1>>
        files == <<chr(ord(file) - 1), file, chr(ord(file) + 1)>>
        pairs == product(files, ranks)
        result == [i \in DOMAIN pairs |-> Formatted(pairs[i])]
    IN  SelectSeq(result, LAMBDA s : is_valid_square(s) /\ s # square)

\* wrong: len(path) - 1 <= max_moves + 1
WithinMovesAndOne(path, max_moves) == Len(path) - 1 <= max_moves + 1

\* len(path) - 1 <= max_moves (lines 96, 105 and 110)
WithinMoves(path, max_moves) == Len(path) - 1 <= max_moves

\* the for loop of lines 101-112 over the squares still to visit: the queue
\* and the result after it
RECURSIVE ForAdjecant(_, _, _, _, _, _)
ForAdjecant(adjecant_squares, path, destination_square, max_moves, queue_, result) ==
    IF adjecant_squares = <<>> THEN <<queue_, result>>
    ELSE LET square == Head(adjecant_squares)
             new_path == Append(path, square)
         IN  IF square = destination_square
             THEN ForAdjecant(Tail(adjecant_squares), path, destination_square,
                      max_moves, queue_,
                      IF WithinMoves(new_path, max_moves)
                      THEN Append(result, new_path) ELSE result)
             ELSE IF square \notin {path[i] : i \in DOMAIN path}
             THEN ForAdjecant(Tail(adjecant_squares), path, destination_square,
                      max_moves,
                      IF WithinMoves(new_path, max_moves)
                      THEN Append(queue_, new_path) ELSE queue_,
                      result)
             ELSE ForAdjecant(Tail(adjecant_squares), path, destination_square,
                      max_moves, queue_, result)

\* one iteration of the while loop (lines 93-112) on a queue that is not
\* empty: the queue and the result after it
LoopBody(queue_, result, destination_square, max_moves) ==
    LET path == Head(queue_)
        rest == Tail(queue_)
    IN  IF path[Len(path)] = destination_square
        THEN <<rest, IF WithinMoves(path, max_moves)
                     THEN Append(result, path) ELSE result>>
        ELSE ForAdjecant(get_adjecant_squares(path[Len(path)]), path,
                 destination_square, max_moves, rest, result)

\* up to 2^k iterations of the while loop, stopping when the queue is empty
\* (line 92); state is <<queue, result>>.  The iterations are grouped by
\* halves so that the evaluation nests k deep and not one level per iteration.
RECURSIVE Iterations(_, _, _, _)
Iterations(k, state, destination_square, max_moves) ==
    IF ~(Len(state[1]) > 0) THEN state
    ELSE IF k = 0
    THEN LoopBody(state[1], state[2], destination_square, max_moves)
    ELSE Iterations(k - 1,
             Iterations(k - 1, state, destination_square, max_moves),
             destination_square, max_moves)

\* the while loop of lines 92-112: the result when the queue is empty
RECURSIVE WhileQueue(_, _, _, _)
WhileQueue(queue_, result, destination_square, max_moves) ==
    LET state == Iterations(10, <<queue_, result>>, destination_square, max_moves)
    IN  IF ~(Len(state[1]) > 0) THEN state[2]
        ELSE WhileQueue(state[1], state[2], destination_square, max_moves)

\* lines 84-112: the queue starts with the one-move paths (lines 87-90)
search_paths(start_square, destination_square, max_moves) ==
    LET adjecant_squares == get_adjecant_squares(start_square)
    IN  WhileQueue([i \in DOMAIN adjecant_squares |->
                        <<start_square, adjecant_squares[i]>>],
                   <<>>, destination_square, max_moves)

\* the squares of the board, the arguments main accepts (lines 65-68)
Squares == {s \in Seq2(Chars, Digits) : is_valid_square(s)}

\* one start square of every class of the board under its symmetries (a1 to
\* d4), and e4 and h8
Starts ==
    {<<"a", "1">>, <<"b", "1">>, <<"c", "1">>, <<"d", "1">>, <<"b", "2">>,
     <<"c", "2">>, <<"d", "2">>, <<"c", "3">>, <<"d", "3">>, <<"d", "4">>,
     <<"e", "4">>, <<"h", "8">>}

\* a call of search_paths returns
SearchPaths ==
    /\ search.pc = "call"
    /\ search' = [search EXCEPT
           !.pc = "done",
           !.found_paths = search_paths(search.start_square,
                               search.destination_square, search.max_moves)]
    /\ UNCHANGED <<min_workers, max_workers, workers, queue, current_value, lock,
                   threads, todo, pc, queue_size, labelled, enqueued, returned,
                   executed, prime_search, perfect_search, main>>

\* search_paths(s, d, m) has been called
Called(s, d, m) ==
    [pc |-> "call", start_square |-> s, destination_square |-> d,
     max_moves |-> m, found_paths |-> <<>>]

\* search_paths is called with a start square of Starts, any destination
\* square of the board and a number of moves up to MaxMoves, or as in
\* test_corner_to_corner; no pool
InitChess ==
    /\ InitPool(0, 0, <<>>, FALSE)
    /\ prime_search = NoPrimeSearch
    /\ perfect_search = NoPerfectSearch
    /\ main = NoMain
    /\ \/ \E s \in Starts, d \in Squares, m \in (0 - 1)..MaxMoves :
              search = Called(s, d, m)
       \/ search = Called(<<"a", "1">>, <<"h", "8">>, CornerMoves)

NextChess == SearchPaths

SpecChess == InitChess /\ [][NextChess]_vars

-----------------------------------------------------------------------------
(* Properties *)

\* the number of threads at pc p
Count(ts, p) == BagCardinality([t \in {x \in DOMAIN ts : x.pc = p} |-> ts[t]])

\* every caller has made all its submit calls, and all have returned
AllSubmitted == \A c \in DOMAIN todo : todo[c] = 0

-----------------------------------------------------------------------------
\* C1: in a pool constructed with 1 <= min_workers <= max_workers, whose
\* actions all return, every action passed to submit is eventually executed
\* (called at line 105) by some worker, under fair scheduling.
C1_EverySubmittedActionIsExecuted ==
    \A a \in 1..6 : (enqueued >= a) ~> BagIn(a, executed)

\* C2: no action is returned by more than one dequeue call, and none is
\* executed more than once.
C2_NoActionDuplicated ==
    labelled =>
        /\ \A a \in BagToSet(returned) : CopiesIn(a, returned) <= 1
        /\ \A a \in BagToSet(executed) : CopiesIn(a, executed) <= 1

\* several actions have gone through two competing workers
C2_Witness ==
    /\ labelled
    /\ Len(workers) >= 2
    /\ BagCardinality(executed) >= 3
    /\ \E c \in DOMAIN pc : pc[c] /= "enqueue"

C4_RosterWithinBounds ==
    min_workers <= max_workers =>
        min_workers <= Len(workers) /\ Len(workers) <= max_workers

\* the roster has grown to max_workers, and a second caller holds a queue
\* size above the mark
C4_Witness ==
    /\ min_workers < max_workers
    /\ Len(workers) = max_workers
    /\ \E c \in DOMAIN pc : pc[c] = "decide" /\ queue_size[c] > HighWaterMark

\* C5: no pool exists whose roster is empty or larger than max_workers
\* (construction rejects min_workers < 1 and min_workers > max_workers).
C5_ConstructionValidated ==
    1 <= Len(workers) /\ Len(workers) <= max_workers

\* C6: a step never removes a worker from the roster: the roster before the
\* step is a prefix of the roster after it.
C6_RosterNeverShrinks ==
    [][/\ Len(workers') >= Len(workers)
       /\ SubSeq(workers', 1, Len(workers)) = workers]_vars

\* the roster has grown beyond the workers of the construction
C6_Witness == Len(workers) > min_workers /\ min_workers >= 1

\* C7: the submit call that returns in this step has added exactly one worker
\* if the size its enqueue returned is above 5 and the roster is below
\* max_workers, and has left the roster unchanged otherwise; no other step
\* of a caller changes the roster.
C7_SubmitGrowsByOneIff ==
    [][\A c \in DOMAIN pc :
          IF pc[c] \in {"check", "append"} /\ pc'[c] = "enqueue"
          THEN IF queue_size[c] > HighWaterMark /\ Len(workers) < max_workers
               THEN /\ Len(workers') = Len(workers) + 1
                    /\ SubSeq(workers', 1, Len(workers)) = workers
               ELSE workers' = workers
          ELSE pc'[c] /= pc[c] => workers' = workers]_vars

\* a submit call is about to add a worker
C7_Witness ==
    \E c \in DOMAIN pc :
        pc[c] = "append" /\ queue_size[c] > HighWaterMark /\ lock = c

\* C8 as stated: after the 20 submit calls of main have returned, the roster
\* size is strictly between 3 and 10.
C8_RosterStrictlyBetween ==
    (AllSubmitted /\ min_workers = MainMinWorkers /\ max_workers = MainMaxWorkers)
        => MainMinWorkers < Len(workers) /\ Len(workers) < MainMaxWorkers

\* C8 as amended: after the 20 submit calls of main have returned, the
\* roster size is between 3 and 10, both included.
C8_RosterBetween ==
    (AllSubmitted /\ min_workers = MainMinWorkers /\ max_workers = MainMaxWorkers)
        => MainMinWorkers <= Len(workers) /\ Len(workers) <= MainMaxWorkers

\* the 20 submit calls have returned and the roster holds 10 workers
C8_Witness ==
    /\ AllSubmitted
    /\ enqueued = MainActions
    /\ Len(workers) = MainMaxWorkers

\* C9: in ThreadPool(1, 1) with 5 submitted actions the roster size is 1 in
\* every state, at most one action is being executed at any moment, and all
\* 5 actions are eventually executed.
C9_SingleWorkerSerializes ==
    /\ [](max_workers = 1 =>
            Len(workers) = 1 /\ Count(threads, "running") <= 1)
    /\ <>(max_workers = 1 => \A a \in 1..5 : BagIn(a, executed))

\* the single worker is executing the last of the 5 actions
C9_Witness ==
    /\ max_workers = 1
    /\ Len(workers) = 1
    /\ Count(threads, "running") = 1
    /\ BagCardinality(executed) = 5

\* C10: no worker is waiting, not notified, while the queue is non-empty; and
\* an enqueue on an empty queue returns 1 and notifies every waiting worker.
C10_NoLostWakeup ==
    /\ [](Len(queue) > 0 => Count(threads, "waiting") = 0)
    /\ [][\A c \in DOMAIN pc :
            (pc[c] = "enqueue" /\ pc'[c] = "decide" /\ Len(queue) = 0) =>
                /\ queue_size'[c] = 1
                /\ Count(threads', "waiting") = 0
                /\ Count(threads', "notified") =
                       Count(threads, "notified") + Count(threads, "waiting")]_vars

\* an enqueue on the empty queue has notified two waiting workers
C10_Witness ==
    /\ Len(queue) = 1
    /\ Count(threads, "notified") >= 2
    /\ \E c \in DOMAIN pc : pc[c] = "decide" /\ queue_size[c] = 1

\* the elements of a sequence
Range(q) == {q[i] : i \in DOMAIN q}

\* C11: the actions enqueued so far are exactly the actions still in the
\* queue together with the actions already returned by dequeue, each once.
C11_NoActionLost ==
    labelled =>
        /\ Range(queue) \cup BagToSet(returned) = 1..enqueued
        /\ Range(queue) \cap BagToSet(returned) = {}
        /\ Cardinality(Range(queue)) = Len(queue)

\* both callers are inside submit, their actions and others are partly
\* queued and partly dequeued
C11_Witness ==
    /\ labelled
    /\ \A c \in DOMAIN pc : pc[c] = "decide"
    /\ Cardinality(DOMAIN pc) = 2
    /\ Len(queue) >= 2
    /\ BagCardinality(returned) >= 2

\* C12: no worker thread ever ends, whatever its name: every thread that has
\* dequeued an action calls it and goes back to dequeue.
C12_WorkerNeverTerminates == Count(threads, "dead") = 0

\* C13: the pool lock is held exactly by a caller inside the with block of
\* submit (lines 61-63), so never by a thread that is in enqueue or dequeue,
\* where the queue lock is held; a caller that has not finished can take a
\* step, and the workers can take a step unless all of them wait on an empty
\* queue.
C13_LocksNeverNestedNoDeadlock ==
    /\ lock \in {0} \cup DOMAIN pc
    /\ \A c \in DOMAIN pc : lock = c <=> pc[c] \in {"check", "append"}
    /\ ~AllSubmitted => ENABLED Callers
    /\ (Len(workers) >= 1 /\ ~(queue = <<>> /\
            Count(threads, "waiting") = BagCardinality(threads)))
           => ENABLED Workers

\* one caller holds the pool lock and is about to append a worker, the other
\* waits for the lock, and a worker has just taken an action from the queue
C13_Witness ==
    /\ \E c, d \in DOMAIN pc : pc[c] = "append" /\ pc[d] = "decide" /\ lock = c
    /\ Count(threads, "fetched") >= 1
    /\ Len(queue) >= 1

\* C14: a caller that calls submit is never made to wait by the queue or by a
\* worker: its enqueue can always run and appends its action, and with fair
\* scheduling of the callers alone every submit call returns.
C14_SubmitAlwaysReturns ==
    /\ [](\A c \in DOMAIN pc :
            (pc[c] = "enqueue" /\ todo[c] > 0) => ENABLED Enqueue(c))
    /\ [][\A c \in DOMAIN pc :
            (pc[c] = "enqueue" /\ pc'[c] = "decide") =>
                /\ Len(queue') = Len(queue) + 1
                /\ queue'[Len(queue')] = enqueued'
                /\ queue_size'[c] = Len(queue')]_vars
    /\ <>AllSubmitted

\* every submit call has returned while the roster is at max_workers, every
\* worker is still running its first action, and the other actions are queued
C14_Witness ==
    /\ AllSubmitted
    /\ max_workers >= 1
    /\ Len(workers) = max_workers
    /\ Count(threads, "running") = Len(workers)
    /\ BagCardinality(executed) = Len(workers)
    /\ Len(queue) = enqueued - Len(workers)

\* C15: the names of the roster are strictly increasing, so no two workers
\* have the same name, none is above the value of the Sequence, and every
\* call of next_value, by this pool or by another one, returns the value
\* before it plus one; a worker appended in a step gets that value.
C15_WorkerNamesUnique ==
    /\ [](/\ \A i, j \in DOMAIN workers : i < j => workers[i] < workers[j]
          /\ \A i \in DOMAIN workers : 1 <= workers[i] /\ workers[i] <= current_value)
    /\ [][/\ current_value' \in {current_value, current_value + 1}
          /\ workers' /= workers =>
                /\ current_value' = current_value + 1
                /\ workers' = Append(workers, current_value')]_vars

\* the roster holds names that are not consecutive: the other pool has drawn
\* a name between two workers of this pool, both added by submit
C15_Witness ==
    /\ Len(workers) >= 2
    /\ Len(workers) > min_workers + 1
    /\ \E i \in DOMAIN workers :
           i + 1 \in DOMAIN workers /\ workers[i + 1] > workers[i] + 1

-----------------------------------------------------------------------------
(* Properties of search_paths *)

\* the file of a square as a number, a = 1, and its rank
File(square) == ord(square[1]) - 96

Rank(square) == int(square[2])

\* the 64 squares
Board == {<<Chars[f + 1], Digits[r + 1]>> : f \in 1..8, r \in 1..8}

Abs(n) == IF n < 0 THEN 0 - n ELSE n

\* the larger of the file difference and the rank difference
KingDistance(a, b) ==
    LET df == Abs(File(a) - File(b))
        dr == Abs(Rank(a) - Rank(b))
    IN  IF df > dr THEN df ELSE dr

Sign(n) == IF n < 0 THEN 0 - 1 ELSE IF n > 0 THEN 1 ELSE 0

\* the squares from a to b along a diagonal
Diagonal(a, b) ==
    [i \in 1..(Abs(File(b) - File(a)) + 1) |->
        <<Chars[File(a) + (i - 1) * Sign(File(b) - File(a)) + 1],
          Digits[Rank(a) + (i - 1) * Sign(Rank(b) - Rank(a)) + 1]>>]

\* the king paths from start with at most n moves that visit no square twice
RECURSIVE SimpleWalks(_, _)
SimpleWalks(start, n) ==
    IF n < 0 THEN {}
    ELSE IF n = 0 THEN {<<start>>}
    ELSE LET shorter == SimpleWalks(start, n - 1)
         IN  shorter \cup
             {Append(w, sq) : <<w, sq>> \in
                 {x \in shorter \X Board :
                     /\ KingDistance(x[1][Len(x[1])], x[2]) = 1
                     /\ x[2] \notin Range(x[1])}}

\* the call has returned
Done == search.pc = "done"

\* C16: every path returned by search_paths(start, destination, max_moves)
\* starts at start, ends at destination, has at most max_moves moves, and
\* every two consecutive squares of it are distinct squares of the board one
\* king move apart.
C16_ReturnedPathsAreKingPaths ==
    Done =>
        \A i \in DOMAIN search.found_paths :
            LET path == search.found_paths[i]
            IN  /\ path[1] = search.start_square
                /\ path[Len(path)] = search.destination_square
                /\ Len(path) - 1 <= search.max_moves
                /\ \A j \in 1..(Len(path) - 1) :
                       /\ path[j] \in Board
                       /\ path[j + 1] \in Board
                       /\ path[j] # path[j + 1]
                       /\ KingDistance(path[j], path[j + 1]) = 1

\* a search from the corner h8 has returned several paths, one of them with
\* exactly max_moves = 3 moves
C16_Witness ==
    /\ Done
    /\ search.start_square = <<"h", "8">>
    /\ search.max_moves = 3
    /\ Len(search.found_paths) > 1
    /\ \E i \in DOMAIN search.found_paths : Len(search.found_paths[i]) = 4

\* C17: for start different from destination, search_paths returns exactly
\* the simple king paths from start to destination with at most max_moves
\* moves (compared path by path up to MaxMoves moves); when max_moves is the
\* king distance these are shortest paths: three for e4 to c4 in 2 moves, and
\* the diagonal alone for two squares of a diagonal, as for corner to corner
\* in 7 moves.
C17_ExactlyTheSimplePaths ==
    (Done /\ search.start_square # search.destination_square) =>
        LET s == search.start_square
            d == search.destination_square
            m == search.max_moves
            found == Range(search.found_paths)
        IN  /\ m <= MaxMoves => found = {w \in SimpleWalks(s, m) : w[Len(w)] = d}
            /\ m = KingDistance(s, d) => \A w \in found : Len(w) - 1 = m
            /\ (s = <<"e", "4">> /\ d = <<"c", "4">> /\ m = 2) =>
                   Cardinality(found) = 3
            /\ (m = Abs(File(s) - File(d)) /\ m = Abs(Rank(s) - Rank(d))) =>
                   found = {Diagonal(s, d)}

\* three moves to an adjacent square: several paths are returned, and the
\* walks that come back to a square are not among them
C17_Witness ==
    /\ Done
    /\ search.max_moves = 3
    /\ KingDistance(search.start_square, search.destination_square) = 1
    /\ Len(search.found_paths) > 3

\* C18: search_paths never returns the same path twice, for every start,
\* destination and max_moves: len(paths) == len(set(paths)).
C18_NoPathTwice ==
    Done => Len(search.found_paths) = Cardinality(Range(search.found_paths))

\* the search of test_all_paths_are_unique has returned several paths
C18_Witness ==
    /\ Done
    /\ search.start_square = <<"d", "4">>
    /\ search.destination_square = <<"e", "5">>
    /\ search.max_moves = 2
    /\ Len(search.found_paths) > 1

\* C19: search_paths(s, s, max_moves) returns the empty tuple for every
\* square s and every max_moves.
C19_NoPathToTheSameSquare ==
    (Done /\ search.start_square = search.destination_square) =>
        search.found_paths = <<>>

\* C20: when max_moves is smaller than the king distance between start and
\* destination, search_paths returns the empty tuple.
C20_TooFewMovesNoPath ==
    (Done /\ search.max_moves <
                 KingDistance(search.start_square, search.destination_square)) =>
        search.found_paths = <<>>

\* one move less than the king distance, as in e4 to c4 in 1 move
C20_Witness ==
    /\ Done
    /\ search.max_moves >= 1
    /\ search.max_moves + 1 =
           KingDistance(search.start_square, search.destination_square)
    /\ search.found_paths = <<>>

-----------------------------------------------------------------------------
(* executor-prime-numbers.py *)

\* math.isqrt of a non-negative integer
isqrt(n) == CHOOSE r \in 0..n : r * r <= n /\ (r + 1) * (r + 1) > n

\* the for loop of lines 136-138 from divider on: no divider of
\* range(divider, stop, 2) divides value
RECURSIVE NoDivider(_, _, _)
NoDivider(value, divider, stop) ==
    IF ~(divider < stop) THEN TRUE
    ELSE IF value % divider = 0 THEN FALSE
    ELSE NoDivider(value, divider + 2, stop)

\* lines 133-139
is_prime_number(value) ==
    IF value % 2 = 0 THEN FALSE
    ELSE NoDivider(value, 3, isqrt(value) + 1)

\* the for loop of lines 146-148 from value on
RECURSIVE PrimesFrom(_, _, _)
PrimesFrom(value, stop, prime_numbers) ==
    IF ~(value < stop) THEN prime_numbers
    ELSE PrimesFrom(value + 1, stop,
             IF is_prime_number(value)
             THEN Append(prime_numbers, value) ELSE prime_numbers)

\* lines 142-155: the prime_numbers of the SearchResult
get_prime_numbers(search_range) ==
    PrimesFrom(search_range.min, search_range.max + 1, <<>>)

\* a call of get_prime_numbers returns
GetPrimeNumbers ==
    /\ prime_search.pc = "call"
    /\ prime_search' = [prime_search EXCEPT
           !.pc = "done",
           !.prime_numbers = get_prime_numbers(prime_search.search_range)]
    /\ UNCHANGED <<min_workers, max_workers, workers, queue, current_value, lock,
                   threads, todo, pc, queue_size, labelled, enqueued, returned,
                   executed, search, perfect_search, main>>

\* get_prime_numbers is called with a range of non-negative integers up to
\* MaxValue; no pool
InitPrimes ==
    /\ InitPool(0, 0, <<>>, FALSE)
    /\ search = NotCalled
    /\ perfect_search = NoPerfectSearch
    /\ main = NoMain
    /\ \E mn \in 0..MaxValue, mx \in 0..MaxValue :
           prime_search = [pc |-> "call", search_range |-> [min |-> mn, max |-> mx],
                           prime_numbers |-> <<>>]

NextPrimes == GetPrimeNumbers

SpecPrimes == InitPrimes /\ [][NextPrimes]_vars

\* n is a prime number
IsPrime(n) == n > 1 /\ \A d \in 2..(n - 1) : n % d # 0

\* the sequence q is strictly ascending
Ascending(q) == \A i \in 1..(Len(q) - 1) : q[i] < q[i + 1]

\* C21: for every range of non-negative integers,
\* get_prime_numbers(SearchRange(min, max)) returns exactly the primes n with
\* min <= n <= max, in ascending order.
C21_ExactlyThePrimes ==
    prime_search.pc = "done" =>
        /\ Range(prime_search.prime_numbers) =
               {n \in prime_search.search_range.min..prime_search.search_range.max :
                   IsPrime(n)}
        /\ Ascending(prime_search.prime_numbers)

-----------------------------------------------------------------------------
(* executor-perfect-numbers.py *)

\* Python's None
None == [none |-> TRUE]

\* the for loop of lines 143-145 from divisor on
RECURSIVE DivisorsFrom(_, _, _, _)
DivisorsFrom(value, divisor, stop, divisors) ==
    IF ~(divisor < stop) THEN divisors
    ELSE DivisorsFrom(value, divisor + 1, stop,
             IF value % divisor = 0 THEN Append(divisors, divisor) ELSE divisors)

\* sum(divisors)
RECURSIVE sum(_)
sum(q) == IF q = <<>> THEN 0 ELSE Head(q) + sum(Tail(q))

\* lines 141-149: a PerfectNumber, or None
is_perfect_number(value) ==
    LET divisors == DivisorsFrom(value, 1, (value \div 2) + 1, <<>>)
    IN  IF sum(divisors) = value
        THEN [number |-> value, divisors |-> divisors]
        ELSE None

\* the truth value of is_perfect_number's result (line 158): None is false,
\* and an instance of the dataclass PerfectNumber is true
Truthy(perfect_number) == perfect_number # None

\* the for loop of lines 156-159 from value on
RECURSIVE PerfectFrom(_, _, _)
PerfectFrom(value, stop, perfect_numbers) ==
    IF ~(value < stop) THEN perfect_numbers
    ELSE LET perfect_number == is_perfect_number(value)
         IN  PerfectFrom(value + 1, stop,
                 IF Truthy(perfect_number)
                 THEN Append(perfect_numbers, perfect_number)
                 ELSE perfect_numbers)

\* lines 152-166: the perfect_numbers of the SearchResult
get_perfect_numbers(search_range) ==
    PerfectFrom(search_range.min, search_range.max + 1, <<>>)

\* a call of get_perfect_numbers returns
GetPerfectNumbers ==
    /\ perfect_search.pc = "call"
    /\ perfect_search' = [perfect_search EXCEPT
           !.pc = "done",
           !.perfect_numbers = get_perfect_numbers(perfect_search.search_range)]
    /\ UNCHANGED <<min_workers, max_workers, workers, queue, current_value, lock,
                   threads, todo, pc, queue_size, labelled, enqueued, returned,
                   executed, search, prime_search, main>>

\* get_perfect_numbers is called with a range of integers from -3 up to
\* MaxValue; no pool
InitPerfect ==
    /\ InitPool(0, 0, <<>>, FALSE)
    /\ search = NotCalled
    /\ prime_search = NoPrimeSearch
    /\ main = NoMain
    /\ \E mn \in (0 - 3)..MaxValue, mx \in (0 - 3)..MaxValue :
           perfect_search = [pc |-> "call", search_range |-> [min |-> mn, max |-> mx],
                             perfect_numbers |-> <<>>]

NextPerfect == GetPerfectNumbers

SpecPerfect == InitPerfect /\ [][NextPerfect]_vars

\* the proper positive divisors of n
ProperDivisors(n) == {d \in 1..(n - 1) : n % d = 0}

RECURSIVE SetSum(_)
SetSum(S) == IF S = {} THEN 0 ELSE LET x == CHOOSE y \in S : TRUE
                                   IN  x + SetSum(S \ {x})

\* n is a perfect number
IsPerfect(n) == n > 0 /\ n = SetSum(ProperDivisors(n))

\* C22: for every range of integers,
\* get_perfect_numbers(SearchRange(min, max)) returns exactly those n with
\* min <= n <= max that are positive integers equal to the sum of their
\* proper positive divisors, each with its proper divisors in ascending order.
C22_ExactlyThePerfectNumbers ==
    perfect_search.pc = "done" =>
        LET found == Range(perfect_search.perfect_numbers)
        IN  /\ {p.number : p \in found} =
                   {n \in perfect_search.search_range.min..
                          perfect_search.search_range.max : IsPerfect(n)}
            /\ \A p \in found :
                   /\ Range(p.divisors) = ProperDivisors(p.number)
                   /\ Ascending(p.divisors)

-----------------------------------------------------------------------------
(* Properties of the pool: queue and workers *)

\* C23: the actions returned by successive dequeue calls, of all workers
\* together, are always a prefix of the enqueued actions: the n-th dequeue
\* that returns, returns the n-th action enqueued, and the queue holds the
\* rest in the order of enqueueing.
C23_FifoAcrossWorkers ==
    /\ [](labelled =>
            /\ BagToSet(returned) = 1..BagCardinality(returned)
            /\ queue = [i \in 1..Len(queue) |-> BagCardinality(returned) + i])
    /\ [][(labelled /\ returned' # returned) =>
            returned' = returned (+) SetToBag({BagCardinality(returned) + 1})]_vars

\* two workers hold the actions 3 and 4, taken from a queue that two callers
\* fill, and later actions are still queued
C23_Witness ==
    /\ labelled
    /\ BagCardinality(returned) = 4
    /\ \E t, u \in BagToSet(threads) :
           /\ t.pc = "fetched" /\ t.action = 3
           /\ u.pc = "fetched" /\ u.action = 4
    /\ Len(queue) >= 2
    /\ \A c \in DOMAIN pc : pc[c] # "enqueue"

\* C24: a dequeue call returns only by taking the head of a queue that is not
\* empty, so every action a worker holds is a real one; a notified worker
\* that finds the queue empty waits again and returns nothing.
C24_DequeueNeverPopsEmpty ==
    /\ [](\A t \in BagToSet(threads) :
            t.pc \in {"fetched", "running"} => t.action >= 1)
    /\ [][returned' # returned =>
            /\ Len(queue) > 0
            /\ queue' = Tail(queue)
            /\ BagCardinality(returned') = BagCardinality(returned) + 1
            /\ Count(threads', "fetched") = Count(threads, "fetched") + 1]_vars
    /\ [][(Len(queue) = 0
            /\ Count(threads', "notified") < Count(threads, "notified")) =>
            /\ Count(threads', "waiting") = Count(threads, "waiting") + 1
            /\ Count(threads', "fetched") = Count(threads, "fetched")
            /\ returned' = returned
            /\ queue' = queue]_vars

\* one enqueue has notified two waiting workers for a single action: one of
\* them has taken it, the other is about to find the queue empty
C24_Witness ==
    /\ enqueued = 1
    /\ Len(queue) = 0
    /\ Count(threads, "fetched") = 1
    /\ Count(threads, "notified") = 1

\* C25: when an action raises, the thread that ran it ends and takes no
\* further step; the step changes nothing else: the roster, the queue and
\* the other threads are as before.  The ended worker stays in the roster and
\* is counted when the roster is compared with max_workers.
C25_RaisingActionRetiresWorker ==
    /\ [](/\ BagCardinality(threads) = Len(workers)
          /\ min_workers <= max_workers => Len(workers) <= max_workers
          /\ \A t \in BagToSet(threads) :
                 t.pc = "dead" =>
                     ~ENABLED (Dequeue(t) \/ Execute(t) \/ Return(t) \/ Raise(t)))
    /\ [][Count(threads', "dead") >= Count(threads, "dead")]_vars
    /\ [][Count(threads', "dead") > Count(threads, "dead") =>
            /\ \E t \in BagToSet(threads) :
                   /\ t.pc = "running"
                   /\ threads' = Replace(threads, t, [t EXCEPT !.pc = "dead"])
            /\ UNCHANGED <<workers, queue, lock, pc, todo, queue_size,
                           current_value, returned, executed>>]_vars

\* a worker has ended, the roster is at max_workers, and a caller whose
\* enqueue returned more than 5 holds the pool lock: no worker will be added
C25_Witness ==
    /\ Count(threads, "dead") >= 1
    /\ 1 <= min_workers /\ min_workers <= max_workers
    /\ Len(workers) = max_workers
    /\ Len(queue) > HighWaterMark
    /\ \E c \in DOMAIN pc : pc[c] = "check" /\ queue_size[c] > HighWaterMark

\* C26: the only place where a worker thread is suspended is the wait inside
\* dequeue, and no worker ever holds the pool lock; while actions never
\* return, every submit call still returns, and a queue that is not empty is
\* emptied unless every worker is inside an action.
C26_RunningActionBlocksNobody ==
    /\ [](/\ lock \in {0} \cup DOMAIN pc
          /\ \A t \in BagToSet(threads) :
                 /\ t.pc \in {"dequeue", "notified"} => ENABLED Dequeue(t)
                 /\ t.pc = "fetched" => ENABLED Execute(t)
                 /\ t.pc = "running" => ENABLED Return(t)
          /\ \A c \in DOMAIN pc :
                 (pc[c] = "enqueue" /\ todo[c] > 0) => ENABLED Enqueue(c))
    /\ <>AllSubmitted
    /\ (Len(queue) > 0) ~>
           (Len(queue) = 0 \/ Count(threads, "running") = BagCardinality(threads))

\* the action enqueued first is still running in one worker; both callers
\* have made all their submit calls and the other worker has executed every
\* other action
C26_Witness ==
    /\ labelled
    /\ AllSubmitted
    /\ Len(queue) = 0
    /\ \E t \in BagToSet(threads) : t.pc = "running" /\ t.action = 1
    /\ \A a \in 1..enqueued : BagIn(a, executed)
    /\ enqueued >= 7

\* C27: the size enqueue returns is the length of the queue right after its
\* own append: it is at least 1 and equals the number of actions enqueued so
\* far, this one included, minus the number dequeued so far.
C27_EnqueueReturnsSizeAfterAppend ==
    /\ [](Len(queue) = enqueued - BagCardinality(returned))
    /\ [][\A c \in DOMAIN pc :
            (pc[c] = "enqueue" /\ pc'[c] = "decide") =>
                /\ queue_size'[c] >= 1
                /\ queue_size'[c] = Len(queue) + 1
                /\ queue_size'[c] = enqueued' - BagCardinality(returned')
                /\ enqueued' = enqueued + 1
                /\ returned' = returned]_vars

\* the two callers hold different sizes, both stale: workers have dequeued
\* since
C27_Witness ==
    /\ \E c, d \in DOMAIN pc :
           /\ pc[c] = "decide" /\ pc[d] = "decide"
           /\ queue_size[c] > queue_size[d]
           /\ queue_size[d] > Len(queue)
    /\ BagCardinality(returned) >= 2

\* C28: the actions being executed are never more than the workers of the
\* roster, and so, for min_workers <= max_workers, never more than
\* max_workers: every thread belongs to a roster entry and runs at most one
\* action.
C28_RunningWithinRoster ==
    /\ Count(threads, "running") <= Len(workers)
    /\ BagCardinality(threads) = Len(workers)
    /\ min_workers <= max_workers => Count(threads, "running") <= max_workers

\* submit has added a worker, and every worker up to max_workers is
\* executing an action
C28_Witness ==
    /\ min_workers < max_workers
    /\ Len(workers) = max_workers
    /\ Count(threads, "running") = max_workers

\* C29: the roster changes only in a step of a caller that is inside submit
\* and holds the pool lock; the steps of the workers leave it unchanged, so
\* once every submit call has returned it stays as it is, whatever is left
\* in the queue; min_workers and max_workers never change.
C29_OnlySubmitChangesRoster ==
    /\ [][workers' # workers =>
            \E c \in DOMAIN pc :
                /\ lock = c
                /\ pc[c] = "append"
                /\ pc'[c] = "enqueue"]_vars
    /\ [][(\E t \in BagToSet(threads) : Dequeue(t) \/ Execute(t) \/ Return(t)) =>
            workers' = workers]_vars
    /\ [][AllSubmitted => workers' = workers]_vars
    /\ [][min_workers' = min_workers /\ max_workers' = max_workers]_vars

\* every submit call has returned, more than 5 actions are left in the queue
\* and the roster is below max_workers
C29_Witness ==
    /\ AllSubmitted
    /\ Len(queue) > HighWaterMark
    /\ 1 <= Len(workers)
    /\ Len(workers) < max_workers

\* C30: right after construction the roster holds min_workers workers, all
\* started and in dequeue; as long as no action is submitted they do nothing
\* but enter the wait of dequeue, and all of them end up waiting there.
C30_WorkersStartedAndBlocked ==
    /\ Len(workers) = min_workers
    /\ BagCardinality(threads) = min_workers
    /\ Count(threads, "dequeue") = min_workers
    /\ [](enqueued = 0 =>
            /\ Len(workers) = min_workers
            /\ Count(threads, "dequeue") + Count(threads, "waiting") = min_workers
            /\ executed = EmptyBag)
    /\ <>(enqueued > 0 \/ Count(threads, "waiting") = min_workers)
    /\ [][(enqueued' = 0 /\ Count(threads, "waiting") = min_workers) =>
            Count(threads', "waiting") = min_workers]_vars

\* nothing has been submitted and both workers of the pool wait in dequeue
C30_Witness ==
    /\ enqueued = 0
    /\ min_workers = 2
    /\ Len(workers) = 2
    /\ Count(threads, "waiting") = 2

----------------------------------------------------------------------------
\* Properties of the pool: growth of the roster

\* the number of submissions beyond the high-water mark
BeyondMark(k) == IF k > HighWaterMark THEN k - HighWaterMark ELSE 0

\* C31: in every state the roster holds at most min_workers plus the number
\* of completed enqueues beyond the fifth; while at most five enqueues have
\* completed the roster is still the roster of the construction.
C31_RosterWithinSubmissionsBeyondMark ==
    /\ Len(workers) <= min_workers + BeyondMark(enqueued)
    /\ enqueued <= HighWaterMark => Len(workers) = min_workers

\* every submission beyond the fifth has added a worker
C31_Witness ==
    /\ enqueued > HighWaterMark
    /\ Len(workers) = min_workers + BeyondMark(enqueued)

\* C32: the if of submit is decided by the size the caller's own enqueue
\* returned, whatever the queue holds when the pool lock is held: the local
\* queue_size is not refreshed while the caller waits for or holds the lock,
\* and the caller goes on to add a worker exactly when that size is above 5
\* and the roster is below max_workers.
C32_GrowthDecidedByReturnedSize ==
    [][\A c \in DOMAIN pc :
          /\ pc[c] \in {"decide", "check"} /\ pc'[c] \in {"decide", "check", "append"}
                => queue_size'[c] = queue_size[c]
          /\ pc[c] = "check" /\ pc'[c] /= "check"
                => (pc'[c] = "append"
                      <=> queue_size[c] > HighWaterMark
                            /\ Len(workers) < max_workers)]_vars

\* submit has decided to add a worker although the workers have drained the
\* queue since its enqueue returned
C32_Witness ==
    \E c \in DOMAIN pc :
        /\ pc[c] = "append"
        /\ lock = c
        /\ queue_size[c] > HighWaterMark
        /\ Len(queue) = 0

\* C33: a pool constructed with min_workers = 0 starts with an empty roster
\* and no thread; while at most 5 enqueues have completed it still has none,
\* so every submitted action is still in the queue and no action has been
\* executed; the step that adds the first worker is taken by a caller whose
\* enqueue returned more than 5.
C33_NoWorkerNoExecutionUntilSixth ==
    /\ min_workers = 0 /\ enqueued = 0 => workers = <<>> /\ threads = EmptyBag
    /\ [](min_workers = 0 /\ enqueued <= HighWaterMark
            => /\ workers = <<>>
               /\ threads = EmptyBag
               /\ Len(queue) = enqueued
               /\ executed = EmptyBag
               /\ returned = EmptyBag)
    /\ [][workers = <<>> /\ workers' /= <<>>
            => \E c \in DOMAIN pc : /\ pc[c] = "append"
                                    /\ pc'[c] = "enqueue"
                                    /\ queue_size[c] > HighWaterMark]_vars

\* five actions have been submitted to a pool without workers, every submit
\* call has returned, and the actions wait in the queue
C33_Witness ==
    /\ min_workers = 0
    /\ max_workers >= 1
    /\ enqueued = HighWaterMark
    /\ Len(queue) = HighWaterMark
    /\ \A c \in DOMAIN pc : pc[c] = "enqueue"

----------------------------------------------------------------------------
(* executor-prime-numbers.py: main *)

\* bulk sizes tried besides the default
MaxBulkSize == 4

\* line 83: the default of --bulk_size
DefaultBulkSize == 5000

\* the builtin min of two integers
min(a, b) == IF a <= b THEN a ELSE b

\* SearchRange(min, max), lines 28-31
SearchRange(first, last) == [min |-> first, max |-> last]

\* wrong: the last value of a batch is the first value of the next
end_without_minus_one(start, bulk_size, last) == min(start + bulk_size, last)

\* line 186: end = min(start + bulk_size - 1, command_line_arguments.end)
end(start, bulk_size, last) == min(start + bulk_size - 1, last)

\* lines 185-189, and line 191 when the loop is left: one test of the while
\* condition and, when it holds, the body. A future is kept as the
\* SearchRange its task was submitted with.
While ==
    /\ main.pc = "while"
    /\ LET arguments == main.command_line_arguments
       IN  IF main.start <= arguments.end
           THEN main' = [main EXCEPT
                    !.future_list =
                        Append(@, SearchRange(main.start,
                                      end(main.start, arguments.bulk_size,
                                          arguments.end))),
                    !.start = @ + arguments.bulk_size]
           ELSE main' = [main EXCEPT !.pc = "for", !.prime_numbers = <<>>]
    /\ UNCHANGED <<min_workers, max_workers, workers, queue, current_value, lock,
                   threads, todo, pc, queue_size, labelled, enqueued, returned,
                   executed, search, prime_search, perfect_search>>

\* lines 192-194: the next future of future_list gives its result, which is
\* what get_prime_numbers returns for the range of the task, and the result
\* is added to prime_numbers; after the last future the loop is left
For ==
    /\ main.pc = "for"
    /\ IF main.results < Len(main.future_list)
       THEN main' = [main EXCEPT
                !.results = @ + 1,
                !.prime_numbers =
                    @ \o get_prime_numbers(main.future_list[main.results + 1])]
       ELSE main' = [main EXCEPT !.pc = "done"]
    /\ UNCHANGED <<min_workers, max_workers, workers, queue, current_value, lock,
                   threads, todo, pc, queue_size, labelled, enqueued, returned,
                   executed, search, prime_search, perfect_search>>

\* main is at line 184 with start and end from 0 to MaxValue and a bulk_size
\* from 1 to MaxBulkSize or the default; no pool
InitPrimeMain ==
    /\ InitPool(0, 0, <<>>, FALSE)
    /\ search = NotCalled
    /\ prime_search = NoPrimeSearch
    /\ perfect_search = NoPerfectSearch
    /\ \E first \in 0..MaxValue, last \in 0..MaxValue,
          bulk_size \in (1..MaxBulkSize) \cup {DefaultBulkSize} :
           main = [pc |-> "while",
                   command_line_arguments |->
                       [start |-> first, end |-> last, bulk_size |-> bulk_size],
                   start |-> first, future_list |-> <<>>, results |-> 0,
                   prime_numbers |-> <<>>]

NextPrimeMain == While \/ For

\* the main thread is not stopped: it runs until it returns
SpecPrimeMain ==
    InitPrimeMain /\ [][NextPrimeMain]_vars /\ WF_vars(NextPrimeMain)

----------------------------------------------------------------------------
\* Properties of main of executor-prime-numbers.py

\* the values of a SearchRange
Values(search_range) == search_range.min..search_range.max

\* ceil(a / b) for a >= 0 and b >= 1
Ceil(a, b) == (a + b - 1) \div b

\* the number of batches [start, end] is split into
BatchCount(arguments) ==
    IF arguments.start > arguments.end THEN 0
    ELSE Ceil(arguments.end - arguments.start + 1, arguments.bulk_size)

\* C34: when the while loop of main has been left, the ranges submitted are
\* non-empty, hold at most bulk_size values each, follow each other without
\* gap or overlap from start to end (so every value of start..end is in
\* exactly one of them and no other value is in any), and there are
\* ceil((end - start + 1) / bulk_size) of them, none when start > end; the
\* for loop adds the results in the order of the ranges, so that what it has
\* collected is what one search of the ranges taken so far gives; and for
\* every bulk_size >= 1 main gets through both loops.
C34_BatchesPartitionRange ==
    LET arguments == main.command_line_arguments
        ranges == main.future_list
        count == Len(main.future_list)
    IN  /\ [](main.pc = "while" => count <= BatchCount(arguments))
        /\ [](main.pc \in {"for", "done"} =>
                /\ count = BatchCount(arguments)
                /\ \A i \in 1..count :
                      /\ ranges[i].min <= ranges[i].max
                      /\ ranges[i].max - ranges[i].min + 1 <= arguments.bulk_size
                      /\ ranges[i].min = IF i = 1 THEN arguments.start
                                         ELSE ranges[i - 1].max + 1
                      /\ i = count => ranges[i].max = arguments.end
                /\ \A n \in arguments.start..arguments.end :
                      Cardinality({i \in 1..count : n \in Values(ranges[i])}) = 1
                /\ \A i \in 1..count :
                      Values(ranges[i]) \subseteq arguments.start..arguments.end
                /\ main.prime_numbers =
                      IF main.results = 0 THEN <<>>
                      ELSE get_prime_numbers(
                               SearchRange(arguments.start,
                                           ranges[main.results].max)))
        /\ [](main.pc = "done" =>
                /\ main.results = count
                /\ main.prime_numbers =
                      get_prime_numbers(SearchRange(arguments.start, arguments.end)))
        /\ <>(main.pc = "done")

\* main has split a range into three or more batches, the last of them
\* shorter than bulk_size, and has collected their results
C34_Witness ==
    /\ main.pc = "done"
    /\ Len(main.future_list) >= 3
    /\ main.command_line_arguments.bulk_size >= 2
    /\ LET last == main.future_list[Len(main.future_list)]
       IN  last.max - last.min + 1 < main.command_line_arguments.bulk_size
    /\ Len(main.prime_numbers) >= 2

====
